---- MODULE Spec2Model ----
(***************************************************************************)
(* The license-verification handler of khalidach/verification-code, in     *)
(* its two deployed variants:                                              *)
(*   "bound"   : src/unnamed/part_000  (code + machineId, machine binding) *)
(*   "unbound" : src/netlify/functions/verify.js  (code alone, single use) *)
(* Both are `exports.handler`, an async function.  JavaScript runs the     *)
(* code between two `await`s without interruption, so the handler's part   *)
(* of one invocation is three steps: the synchronous prefix up to the      *)
(* select call, the continuation after the select up to the update call,   *)
(* and the continuation after the update.  While the handler is suspended  *)
(* at an await the store performs the call, as a step of its own, and the  *)
(* answer reaches the handler later; other invocations run in between.     *)
(* The only state invocations share is the store's table and the process   *)
(* environment.                                                            *)
(***************************************************************************)
EXTENDS Integers, Sequences, FiniteSets, TLC

\* ------------------------------------------------------------------ bounds
\* Invocations that may be in flight at once (a finished one frees its slot).
MaxInFlight == 2
\* The instants `new Date()` can read are 1..MaxTime.  With one instant a
\* second write to a record shows in machine_id only; with two, in used_at too.
MaxTime == 1

Procs == 1..MaxInFlight
Times == 1..MaxTime

\* ------------------------------------------------------- JavaScript values
\* A value is a tagged record; `s` holds a string's characters (or a
\* number's digits), so that trim and emptiness are computed, not assumed.
Undefined == [t |-> "undefined", s |-> <<>>]
Null      == [t |-> "null", s |-> <<>>]
Str(chars) == [t |-> "string", s |-> chars]
Num(digits) == [t |-> "number", s |-> digits]

\* `!v` is false exactly for truthy v: a non-empty string or a non-zero number.
Truthy(v) ==
  \/ v.t = "string" /\ v.s # <<>>
  \/ v.t = "number" /\ v.s # <<"0">>

\* The code points String.prototype.trim strips: WhiteSpace and
\* LineTerminator of ECMAScript.  A character is a one-character string;
\* those outside printable ASCII are written as their JavaScript escape.
WhiteSpace ==
  { " ", "\t", "\n", "\r", "\f", "\\u000b", "\\u00a0", "\\u1680",
    "\\u2000", "\\u2001", "\\u2002", "\\u2003", "\\u2004", "\\u2005",
    "\\u2006", "\\u2007", "\\u2008", "\\u2009", "\\u200a",
    "\\u2028", "\\u2029", "\\u202f", "\\u205f", "\\u3000", "\\ufeff" }

IsWhite(c) == c \in WhiteSpace

\* String.prototype.trim on a sequence of characters.
RECURSIVE TrimLeft(_)
TrimLeft(s) ==
  IF s # <<>> /\ IsWhite(Head(s)) THEN TrimLeft(Tail(s)) ELSE s

RECURSIVE TrimRight(_)
TrimRight(s) ==
  IF s # <<>> /\ IsWhite(s[Len(s)]) THEN TrimRight(SubSeq(s, 1, Len(s) - 1)) ELSE s

Trim(s) == TrimRight(TrimLeft(s))

\* ------------------------------------------------------------ the requests
M1 == Str(<<"M", "1">>)
M2 == Str(<<"M", "2">>)

\* event.body: text that JSON.parse rejects, or the text of a JSON object
\* with the fields code and machineId (Undefined: the field is absent).
InvalidBody == [json |-> "invalid", code |-> Undefined, machineId |-> Undefined]
Body(code, machineId) == [json |-> "object", code |-> code, machineId |-> machineId]

\* The request bodies tried on the machine-bound handler: every shape of
\* code with a good machineId, and every shape of machineId with a good code.
\* The codes "A " and "\nA\u00a0" reach record "A" only through trim; " \t"
\* is blank after trim and, like "Z", matches no record.
BoundBodies ==
  { InvalidBody,
    Body(Undefined, M1), Body(Str(<<>>), M1), Body(Str(<<" ", "\t">>), M1),
    Body(Num(<<"7">>), M1),
    Body(Str(<<"A", " ">>), M1), Body(Str(<<"\n", "A", "\\u00a0">>), M2),
    Body(Str(<<"A", " ">>), Undefined), Body(Str(<<"A", " ">>), Str(<<>>)) }

\* The bodies tried on the machine-unbound handler, whose requests carry the
\* code alone: every shape of code; the one that reaches record "A" carries
\* a machineId besides, which the handler never reads.
UnboundBodies ==
  { InvalidBody,
    Body(Undefined, Undefined), Body(Str(<<>>), Undefined),
    Body(Str(<<" ", "\t">>), Undefined),
    Body(Num(<<"7">>), Undefined), Body(Str(<<"Z">>), Undefined),
    Body(Str(<<"\n", "A", "\\u00a0">>), M1) }

Bodies(v) == IF v = "bound" THEN BoundBodies ELSE UnboundBodies

PostEvents(v) == [httpMethod : {"POST"}, body : Bodies(v)]
\* A request of another method carries any body; two bodies stand for "any".
OtherEvents ==
  { [httpMethod |-> "GET", body |-> InvalidBody],
    [httpMethod |-> "GET", body |-> Body(Str(<<"B">>), M1)],
    [httpMethod |-> "OPTIONS", body |-> Body(Str(<<"B">>), M1)] }
Events(v) == PostEvents(v) \cup OtherEvents

NoEvent == [httpMethod |-> "", body |-> InvalidBody]

\* --------------------------------------------------------------- the store
\* Table verification_codes as the provisioning process leaves it: unique
\* codes, nothing used yet.  used_at is <<>> (null) or <<t>>.
RecIds == {1, 2}
CodeOf(id) == IF id = 1 THEN <<"A">> ELSE <<"B">>

NewRecord(id) ==
  [id |-> id, code |-> CodeOf(id), is_used |-> FALSE,
   machine_id |-> Null, used_at |-> <<>>]

NoRow == [id |-> 0, code |-> <<>>, is_used |-> FALSE,
          machine_id |-> Null, used_at |-> <<>>]
NoPayload == [is_used |-> FALSE, used_at |-> <<>>, machine_id |-> Undefined]

NoResponse == [statusCode |-> 0, body |-> "", success |-> FALSE, message |-> ""]

\* The { data, error } a store call resolves to, while it has not resolved.
NoReply == [data |-> NoRow, error |-> "unset"]

VARIABLES
  variant,    \* which handler file is deployed
  env,        \* process.env: is SUPABASE_URL / SUPABASE_ANON_KEY set
  table,      \* the store: id -> row of verification_codes
  pc,         \* per invocation: "idle", "select", "update" (the await it is at), "done"
  event,      \* per invocation: the event it was invoked with
  codeData,   \* per invocation, while it runs: the row the select returned
  payload,    \* per invocation, while it runs: the object handed to .update()
  selectError, \* per invocation: `selectError`, what the select call reported
  updateError, \* per invocation: `updateError`, what the update call reported
  response,   \* per invocation: the response it returned
  reads,      \* per invocation: select calls issued
  writes,     \* per invocation: update calls issued
  reply,      \* per invocation: the answer of its store call, on its way
              \* back to the suspended handler (NoReply: none yet)
  landed      \* per invocation: whether the store has applied its update

vars == <<variant, env, table, pc, event, codeData, payload, selectError, updateError,
          response, reads, writes, reply, landed>>

\* ------------------------------------------------------------ the handler
Respond(status, ok, msg) ==
  [statusCode |-> status, body |-> "json", success |-> ok, message |-> msg]

\* The pre-flight answer: status 204 with an empty body.
Preflight == [statusCode |-> 204, body |-> "", success |-> FALSE, message |-> ""]

\* What the platform answers when an exception leaves the handler: no
\* structured body.  (Unexpected without the try/catch around the handler.)
Escaped == [statusCode |-> 502, body |-> "", success |-> FALSE, message |-> ""]

\* The catch block at the handler boundary.
Unexpected == Respond(500, FALSE, "An unexpected error occurred.")

\* MethodGate without the 405 branch: only the pre-flight is answered here.
MethodGatePreflightOnly(ev) ==
  IF ev.httpMethod = "OPTIONS" THEN Preflight ELSE NoResponse

\* The method gate: a response, or NoResponse when the request goes on.
MethodGate(ev) ==
  IF ev.httpMethod = "OPTIONS" THEN Preflight
  ELSE IF ev.httpMethod # "POST" THEN Respond(405, FALSE, "Method Not Allowed")
  ELSE NoResponse

\* ConfigPresent with the access key left unchecked.
ConfigPresentUrlOnly(e) == e.SUPABASE_URL

\* !supabaseUrl || !supabaseAnonKey is false.
ConfigPresent(e) == e.SUPABASE_URL /\ e.SUPABASE_ANON_KEY

\* JSON.parse(event.body) throws.
ParseThrows(body) == body.json = "invalid"

\* BadInput with the machine-bound check of machineId left out.
BadInputCodeOnly(v, body) ==
  IF v = "bound"
  THEN ~Truthy(body.code)
  ELSE \/ ~Truthy(body.code)
       \/ body.code.t # "string"
       \/ Trim(body.code.s) = <<>>

\* The input check that answers 400.
BadInput(v, body) ==
  IF v = "bound"
  THEN ~Truthy(body.code) \/ ~Truthy(body.machineId)
  ELSE \/ ~Truthy(body.code)
       \/ body.code.t # "string"
       \/ Trim(body.code.s) = <<>>

BadInputMessage(v) ==
  IF v = "bound" THEN "Verification code and machine ID are required."
  ELSE "Verification code is required."

\* code.trim() throws a TypeError when code is not a string.
TrimThrows(code) == code.t # "string"

\* The key the select is filtered on: code.trim().
LookupKey(body) == Trim(body.code.s)

\* The synchronous part of the handler before the select: the response it
\* returns, or NoResponse when it goes on to call the store.
Prefix(v, e, ev) ==
  IF MethodGate(ev) # NoResponse THEN MethodGate(ev)
  ELSE IF ~ConfigPresent(e) THEN Respond(500, FALSE, "Server configuration error.")
  ELSE IF ParseThrows(ev.body) THEN Unexpected
  ELSE IF BadInput(v, ev.body) THEN Respond(400, FALSE, BadInputMessage(v))
  ELSE IF TrimThrows(ev.body.code) THEN Unexpected
  ELSE NoResponse

\* .from("verification_codes").select("*").eq("code", key).single():
\* the one matching row, or NoRow (data null, error PGRST116).
SelectSingle(tbl, key) ==
  LET hits == {id \in RecIds : tbl[id].code = key}
  IN IF Cardinality(hits) = 1 THEN tbl[CHOOSE id \in hits : TRUE] ELSE NoRow

NotFoundMessage(v) ==
  IF v = "bound" THEN "Invalid verification code."
  ELSE "Invalid or already used verification code."

\* Validate with the same-machine branch falling through to the update, as
\* if a re-verification refreshed the record.
ValidateRewritesUsed(v, row, machineId) ==
  IF v = "bound"
  THEN IF row = NoRow THEN Respond(404, FALSE, NotFoundMessage(v))
       ELSE IF row.is_used /\ row.machine_id # machineId
       THEN Respond(403, FALSE, "This code has already been used on another computer.")
       ELSE NoResponse
  ELSE IF row = NoRow \/ row.is_used THEN Respond(404, FALSE, NotFoundMessage(v))
       ELSE NoResponse

\* Validate without the same-machine branch: a used code is always refused.
ValidateNoReverify(v, row, machineId) ==
  IF v = "bound"
  THEN IF row = NoRow THEN Respond(404, FALSE, NotFoundMessage(v))
       ELSE IF row.is_used
       THEN Respond(403, FALSE, "This code has already been used on another computer.")
       ELSE NoResponse
  ELSE IF row = NoRow \/ row.is_used THEN Respond(404, FALSE, NotFoundMessage(v))
       ELSE NoResponse

\* Validate without the refusal of a used code: the machine-bound handler
\* accepts any machine, the machine-unbound one only checks that a row exists.
ValidateIgnoresUsed(v, row, machineId) ==
  IF v = "bound"
  THEN IF row = NoRow THEN Respond(404, FALSE, NotFoundMessage(v))
       ELSE IF row.is_used THEN Respond(200, TRUE, "Verification successful.")
       ELSE NoResponse
  ELSE IF row = NoRow THEN Respond(404, FALSE, NotFoundMessage(v))
       ELSE NoResponse

\* The validation of the row the select returned: the response, or
\* NoResponse when the handler goes on to the update.
Validate(v, row, machineId) ==
  IF v = "bound"
  THEN IF row = NoRow THEN Respond(404, FALSE, NotFoundMessage(v))
       ELSE IF row.is_used
       THEN IF row.machine_id = machineId
            THEN Respond(200, TRUE, "Verification successful.")
            ELSE Respond(403, FALSE, "This code has already been used on another computer.")
       ELSE NoResponse
  ELSE IF row = NoRow \/ row.is_used THEN Respond(404, FALSE, NotFoundMessage(v))
       ELSE NoResponse

\* UpdatePayload with the flag written as false.
UpdatePayloadFlagFalse(v, machineId, t) ==
  [is_used |-> FALSE, used_at |-> <<t>>,
   machine_id |-> IF v = "bound" THEN machineId ELSE Undefined]

\* UpdatePayload with used_at left out of the object.
UpdatePayloadNoTimestamp(v, machineId, t) ==
  [is_used |-> TRUE, used_at |-> <<>>,
   machine_id |-> IF v = "bound" THEN machineId ELSE Undefined]

\* The object handed to .update(); machine_id Undefined: the key is absent.
UpdatePayload(v, machineId, t) ==
  [is_used |-> TRUE, used_at |-> <<t>>,
   machine_id |-> IF v = "bound" THEN machineId ELSE Undefined]

\* ApplyUpdate without the .eq("id", id) filter: every row is updated.
ApplyUpdateAllRows(tbl, id, pl) ==
  [r \in RecIds |->
     [tbl[r] EXCEPT !.is_used = pl.is_used,
                    !.used_at = pl.used_at,
                    !.machine_id = IF pl.machine_id = Undefined THEN @ ELSE pl.machine_id]]

\* .update(pl).eq("id", id) as the store applies it.
ApplyUpdate(tbl, id, pl) ==
  [r \in RecIds |->
     IF tbl[r].id = id
     THEN [tbl[r] EXCEPT !.is_used = pl.is_used,
                         !.used_at = pl.used_at,
                         !.machine_id = IF pl.machine_id = Undefined THEN @ ELSE pl.machine_id]
     ELSE tbl[r]]

UpdateFailedMessage(v) ==
  IF v = "bound" THEN "Failed to activate code." ELSE "Failed to update code status."

ActivatedMessage(v) ==
  IF v = "bound" THEN "Application activated successfully."
  ELSE "Verification successful. Access granted."

\* What `new Date()` can read: wall-clock time, which the handler does not
\* control (and which need not be monotonic).
ClockReadings == Times

\* What a select can do: answer, report a fault, or make the await throw.
StoreOutcomes == {"ok", "fault", "throw"}

\* What an update can do: the store applies it or not, and the call comes
\* back without error, with an error object, or by throwing.  The two are
\* independent: an answer can be lost after the write, and an update that
\* changes no row is answered without error.
UpdateOutcomes == [applied : BOOLEAN, error : {"null", "other", "threw"}]

\* Whether the store has applied the update.
UpdateApplied(outcome) == outcome.applied

\* The `error` a store call leaves in the handler: "unset" before the call,
\* "null" for no error, "PGRST116" for no rows, "other" for any other fault,
\* "threw" when the await threw instead of returning.
SelectError(outcome, row) ==
  IF outcome = "throw" THEN "threw"
  ELSE IF outcome = "fault" THEN "other"
  ELSE IF row = NoRow THEN "PGRST116"
  ELSE "null"

UpdateError(outcome) == outcome.error

\* AfterSelect without the exemption of PGRST116: no rows is a query failure.
AfterSelectNoRowsIsFault(v, err, row, machineId) ==
  IF err = "threw" THEN Unexpected
  ELSE IF err # "null" THEN Respond(500, FALSE, "Database query failed.")
  ELSE Validate(v, row, machineId)

\* What the handler answers once the select is back, or NoResponse when it
\* goes on to the update.
AfterSelect(v, err, row, machineId) ==
  IF err = "threw" THEN Unexpected
  ELSE IF err = "other" THEN Respond(500, FALSE, "Database query failed.")
  ELSE Validate(v, row, machineId)

\* What the handler answers once the update is back.
AfterUpdate(v, err) ==
  IF err = "threw" THEN Unexpected
  ELSE IF err = "other" THEN Respond(500, FALSE, UpdateFailedMessage(v))
  ELSE Respond(200, TRUE, ActivatedMessage(v))

\* ------------------------------------------------------------- the machine
Init ==
  /\ variant \in {"bound", "unbound"}
  /\ env \in [SUPABASE_URL : BOOLEAN, SUPABASE_ANON_KEY : BOOLEAN]
  /\ table = [id \in RecIds |-> NewRecord(id)]
  /\ pc = [p \in Procs |-> "idle"]
  /\ event = [p \in Procs |-> NoEvent]
  /\ codeData = [p \in Procs |-> NoRow]
  /\ payload = [p \in Procs |-> NoPayload]
  /\ selectError = [p \in Procs |-> "unset"]
  /\ updateError = [p \in Procs |-> "unset"]
  /\ response = [p \in Procs |-> NoResponse]
  /\ reads = [p \in Procs |-> 0]
  /\ writes = [p \in Procs |-> 0]
  /\ reply = [p \in Procs |-> NoReply]
  /\ landed = [p \in Procs |-> FALSE]

\* The handler returns `r`: the row and the payload go out of scope.
Finish(p, r) ==
  /\ pc' = [pc EXCEPT ![p] = "done"]
  /\ response' = [response EXCEPT ![p] = r]
  /\ codeData' = [codeData EXCEPT ![p] = NoRow]
  /\ payload' = [payload EXCEPT ![p] = NoPayload]

\* The platform invokes the handler; it runs up to its first await, where
\* the select is sent and the handler is suspended.
Invoke(p) ==
  /\ pc[p] = "idle"
  /\ \E ev \in Events(variant) :
       /\ event' = [event EXCEPT ![p] = ev]
       /\ IF Prefix(variant, env, ev) = NoResponse
          THEN /\ pc' = [pc EXCEPT ![p] = "select"]
               /\ reads' = [reads EXCEPT ![p] = @ + 1]
               /\ UNCHANGED <<response, codeData, payload>>
          ELSE /\ Finish(p, Prefix(variant, env, ev))
               /\ UNCHANGED reads
  /\ UNCHANGED <<variant, env, table, selectError, updateError, writes, reply, landed>>

\* While the handler is suspended the select is performed: the store reads
\* the table as it is now, or the call fails; the answer is on its way.
StoreSelect(p) ==
  /\ pc[p] = "select" /\ reply[p] = NoReply
  /\ \E outcome \in StoreOutcomes :
       LET row == SelectSingle(table, LookupKey(event[p].body))
       IN reply' = [reply EXCEPT ![p] =
                      [data |-> IF outcome = "ok" THEN row ELSE NoRow,
                       error |-> SelectError(outcome, row)]]
  /\ UNCHANGED <<variant, env, table, pc, event, codeData, payload, selectError,
                 updateError, response, reads, writes, landed>>

\* The answer of the select reaches the handler, which runs up to its next
\* await (the update is sent) or returns.
SelectReturn(p) ==
  /\ pc[p] = "select" /\ reply[p] # NoReply
  /\ LET row == reply[p].data
         err == reply[p].error
         answer == AfterSelect(variant, err, row, event[p].body.machineId)
     IN /\ selectError' = [selectError EXCEPT ![p] = err]
        /\ IF answer # NoResponse
           THEN Finish(p, answer) /\ UNCHANGED writes
           ELSE \E t \in ClockReadings :
                /\ pc' = [pc EXCEPT ![p] = "update"]
                /\ codeData' = [codeData EXCEPT ![p] = row]
                /\ payload' = [payload EXCEPT ![p] =
                                 UpdatePayload(variant, event[p].body.machineId, t)]
                /\ writes' = [writes EXCEPT ![p] = @ + 1]
                /\ UNCHANGED response
  /\ reply' = [reply EXCEPT ![p] = NoReply]
  /\ UNCHANGED <<variant, env, table, event, updateError, reads, landed>>

\* While the handler is suspended the update is performed: the store
\* applies it to the table as it is now, or not, and the answer is on its
\* way.
StoreUpdate(p) ==
  /\ pc[p] = "update" /\ reply[p] = NoReply
  /\ \E outcome \in UpdateOutcomes :
       /\ table' = IF UpdateApplied(outcome)
                   THEN ApplyUpdate(table, codeData[p].id, payload[p])
                   ELSE table
       /\ landed' = [landed EXCEPT ![p] = UpdateApplied(outcome)]
       /\ reply' = [reply EXCEPT ![p] =
                      [data |-> NoRow, error |-> UpdateError(outcome)]]
  /\ UNCHANGED <<variant, env, pc, event, codeData, payload, selectError,
                 updateError, response, reads, writes>>

\* The answer of the update reaches the handler, which returns.
UpdateReturn(p) ==
  /\ pc[p] = "update" /\ reply[p] # NoReply
  /\ updateError' = [updateError EXCEPT ![p] = reply[p].error]
  /\ Finish(p, AfterUpdate(variant, reply[p].error))
  /\ reply' = [reply EXCEPT ![p] = NoReply]
  /\ UNCHANGED <<variant, env, table, event, selectError, reads, writes, landed>>

\* The response is delivered and the slot is free for the next invocation.
Return(p) ==
  /\ pc[p] = "done"
  /\ pc' = [pc EXCEPT ![p] = "idle"]
  /\ event' = [event EXCEPT ![p] = NoEvent]
  /\ selectError' = [selectError EXCEPT ![p] = "unset"]
  /\ updateError' = [updateError EXCEPT ![p] = "unset"]
  /\ response' = [response EXCEPT ![p] = NoResponse]
  /\ reads' = [reads EXCEPT ![p] = 0]
  /\ writes' = [writes EXCEPT ![p] = 0]
  /\ landed' = [landed EXCEPT ![p] = FALSE]
  /\ UNCHANGED <<variant, env, table, codeData, payload, reply>>

Next ==
  \/ \E p \in Procs : Invoke(p)
  \/ \E p \in Procs : StoreSelect(p)
  \/ \E p \in Procs : SelectReturn(p)
  \/ \E p \in Procs : StoreUpdate(p)
  \/ \E p \in Procs : UpdateReturn(p)
  \/ \E p \in Procs : Return(p)

Spec == Init /\ [][Next]_vars

\* The same handler under a caller discipline: an invocation that reaches
\* the store begins only when no invocation for the same code is waiting on
\* the store, so requests for one code never overlap.
NonOverlapInvoke(p) ==
  /\ Invoke(p)
  /\ pc'[p] = "select" =>
       \A q \in Procs \ {p} :
         pc[q] \in {"select", "update"}
         => LookupKey(event[q].body) # LookupKey(event'[p].body)

NonOverlapNext ==
  \/ \E p \in Procs : NonOverlapInvoke(p)
  \/ \E p \in Procs : StoreSelect(p)
  \/ \E p \in Procs : SelectReturn(p)
  \/ \E p \in Procs : StoreUpdate(p)
  \/ \E p \in Procs : UpdateReturn(p)
  \/ \E p \in Procs : Return(p)

NonOverlapSpec == Init /\ [][NonOverlapNext]_vars

\* ---------------------------------------------------------------- notions
Done(p) == pc[p] = "done"

\* The records a request's code selects (none, or one: codes are unique).
Targets(ev) == {id \in RecIds : table[id].code = LookupKey(ev.body)}

Ok200(r) == r.statusCode = 200 /\ r.success

\* The store operations of the invocation succeeded: no call reported a
\* fault or threw, and the update, if one was issued, was applied.
NoStoreFailure(p) ==
  /\ selectError[p] \notin {"other", "threw"}
  /\ updateError[p] \notin {"other", "threw"}
  /\ writes[p] = 1 => landed[p]

\* The steps of one invocation's store calls: the store performs the call
\* while the handler is suspended, and later the answer reaches the handler.
StoreReads(p) == pc[p] = "select" /\ reply[p] = NoReply /\ reply'[p] # NoReply
SelectAnswered(p) == pc[p] = "select" /\ reply[p] # NoReply /\ reply'[p] = NoReply
StoreWrites(p) == pc[p] = "update" /\ reply[p] = NoReply /\ reply'[p] # NoReply

\* A select answered without error carries the record of the requested
\* code as the table holds it at the moment the store reads it.
ReadIsCurrent(p) ==
  (StoreReads(p) /\ reply'[p].error = "null")
  => \E id \in Targets(event[p]) : reply'[p].data = table[id]

\* A POST whose body is a JSON object.
PostObject(ev) == ev.httpMethod = "POST" /\ ev.body.json = "object"

NonEmptyString(v) == v.t = "string" /\ v.s # <<>>
MissingOrEmpty(v) == v = Undefined \/ v = Str(<<>>)

\* A request as section 6 of the specification writes it, for a code that
\* is not blank.
WellFormed(v, ev) ==
  /\ PostObject(ev)
  /\ NonEmptyString(ev.body.code) /\ Trim(ev.body.code.s) # <<>>
  /\ v = "bound" => NonEmptyString(ev.body.machineId)

\* ------------------------------------------------------------------ claims

\* C1 (machine-bound variant).  Of two finished requests for the same code
\* that carry different machine IDs and met no store failure, one of which
\* found the code never used and activated it: that one alone has 200 and
\* success, and the record's machine_id is its machine ID.
C1_OneOfTwoActivates ==
  variant = "bound" =>
    \A p \in Procs, q \in Procs, id \in RecIds :
      ( /\ p # q /\ Done(p) /\ Done(q)
        /\ id \in Targets(event[p]) /\ id \in Targets(event[q])
        /\ reads[p] = 1 /\ reads[q] = 1
        /\ NoStoreFailure(p) /\ NoStoreFailure(q)
        /\ event[p].body.machineId # event[q].body.machineId
        /\ writes[p] = 1 )
      => /\ Ok200(response[p])
         /\ ~Ok200(response[q])
         /\ table[id].machine_id = event[p].body.machineId

\* C2.  A record's fields are written at most once: no step changes any
\* field of a record that is already used.
C2_WrittenOnce ==
  [][\A id \in RecIds : table[id].is_used => table'[id] = table[id]]_vars

\* C3.  A used record has a non-null machine_id, and it is the machineId of
\* the request that activated the record.
C3_UsedHasActivatorsMachine ==
  \A id \in RecIds :
    table[id].is_used =>
      /\ table[id].machine_id # Null
      /\ \A p \in Procs :
           ( /\ Done(p) /\ id \in Targets(event[p])
             /\ writes[p] = 1 /\ Ok200(response[p]) )
           => table[id].machine_id = event[p].body.machineId

\* C4 (machine-unbound variant).  A code is single-use: of two finished
\* requests for the same code that met no store failure, when one has 200
\* the other has 404.
C4_SingleUse ==
  variant = "unbound" =>
    \A p \in Procs, q \in Procs, id \in RecIds :
      ( /\ p # q /\ Done(p) /\ Done(q)
        /\ id \in Targets(event[p]) /\ id \in Targets(event[q])
        /\ reads[p] = 1 /\ reads[q] = 1
        /\ NoStoreFailure(p) /\ NoStoreFailure(q)
        /\ Ok200(response[p]) )
      => response[q].statusCode = 404

\* C5.  After a well-formed request for the code of a record, with the
\* configuration present and no store failure, the record is used; and the
\* request that found it unused (the one that issued the update) has
\* status 200 with success = true.
C5_ActivationSucceeds ==
  \A p \in Procs, id \in RecIds :
    ( /\ Done(p) /\ WellFormed(variant, event[p]) /\ ConfigPresent(env)
      /\ id \in Targets(event[p]) /\ NoStoreFailure(p) )
    => /\ table[id].is_used
       /\ writes[p] = 1 => Ok200(response[p])

\* C5's case: a request found its record unused, activated it and has 200.
C5_Witness ==
  \E p \in Procs, id \in RecIds :
    /\ Done(p) /\ WellFormed(variant, event[p]) /\ id \in Targets(event[p])
    /\ writes[p] = 1 /\ NoStoreFailure(p)
    /\ Ok200(response[p]) /\ table[id].is_used

\* C6 (machine-bound variant).  The store answers a select with the record
\* as it is when it reads it; when that record is used and its machine_id
\* is the request's machineId, the handler returns 200 with success = true,
\* has issued no update, and the table is unchanged (so a repeat meets the
\* same record).
C6_SameMachineReverifies ==
  [][variant = "bound" =>
       \A p \in Procs :
         /\ ReadIsCurrent(p)
         /\ ( /\ SelectAnswered(p) /\ reply[p].error = "null"
              /\ reply[p].data.is_used
              /\ reply[p].data.machine_id = event[p].body.machineId )
            => /\ pc'[p] = "done"
               /\ Ok200(response'[p])
               /\ writes'[p] = 0
               /\ table' = table]_vars

\* C6's case: a finished re-verification by the machine the record is bound to.
C6_Witness ==
  \E p \in Procs, id \in RecIds :
    /\ variant = "bound" /\ Done(p) /\ id \in Targets(event[p])
    /\ selectError[p] = "null" /\ writes[p] = 0
    /\ table[id].is_used /\ table[id].machine_id = event[p].body.machineId
    /\ Ok200(response[p])

\* C7.  The store answers a select with the record as it is when it reads
\* it; when that record is used, the machine-bound handler returns 403 if
\* the record's machine_id is not the request's machineId, and the
\* machine-unbound handler returns 404 whatever the machineId; neither
\* issues an update and the table is unchanged.
C7_UsedElsewhereRejected ==
  [][\A p \in Procs :
       /\ ReadIsCurrent(p)
       /\ ( /\ SelectAnswered(p) /\ reply[p].error = "null"
            /\ reply[p].data.is_used
            /\ variant = "bound" => reply[p].data.machine_id # event[p].body.machineId )
          => /\ pc'[p] = "done"
             /\ response'[p].statusCode = (IF variant = "bound" THEN 403 ELSE 404)
             /\ ~response'[p].success
             /\ writes'[p] = 0
             /\ table' = table]_vars

\* C7's case: a finished request of another machine was refused a used
\* record with 403.
C7_Witness ==
  \E p \in Procs, id \in RecIds :
    /\ variant = "bound"
    /\ Done(p) /\ id \in Targets(event[p]) /\ table[id].is_used
    /\ selectError[p] = "null" /\ writes[p] = 0
    /\ table[id].machine_id # event[p].body.machineId
    /\ response[p].statusCode = 403

\* C8.  A select for a code that matches no record, when it meets no other
\* fault, is answered with PGRST116, and on that answer the handler returns
\* 404 with success = false; on another fault it returns 500; in both cases
\* no update is issued and the table is unchanged.
C8_UnknownCodeIs404 ==
  [][\A p \in Procs :
       /\ ( /\ StoreReads(p) /\ Targets(event[p]) = {}
            /\ reply'[p].error \notin {"other", "threw"} )
          => reply'[p].error = "PGRST116"
       /\ (SelectAnswered(p) /\ reply[p].error = "PGRST116")
          => /\ pc'[p] = "done"
             /\ response'[p].statusCode = 404 /\ ~response'[p].success
             /\ writes'[p] = 0 /\ table' = table
       /\ (SelectAnswered(p) /\ reply[p].error = "other")
          => /\ pc'[p] = "done"
             /\ response'[p].statusCode = 500 /\ ~response'[p].success
             /\ writes'[p] = 0 /\ table' = table]_vars

\* C8's case: both answers have been given: 404 for a code no record has,
\* and 500 for a select fault.
C8_Witness ==
  /\ \E p \in Procs :
       /\ Done(p) /\ Targets(event[p]) = {} /\ selectError[p] = "PGRST116"
       /\ response[p].statusCode = 404
  /\ \E q \in Procs :
       /\ Done(q) /\ selectError[q] = "other" /\ response[q].statusCode = 500

\* The requests C9 is about: a POST with a JSON object whose code is missing
\* or the empty string or, in the machine-bound variant, whose machineId is.
MissingInput(v, ev) ==
  /\ PostObject(ev)
  /\ \/ MissingOrEmpty(ev.body.code)
     \/ v = "bound" /\ MissingOrEmpty(ev.body.machineId)

\* C9 as stated.  Such a request is answered 400 without any store call,
\* whatever the configuration.
C9_Original ==
  \A p \in Procs :
    (Done(p) /\ MissingInput(variant, event[p]))
    => response[p].statusCode = 400 /\ reads[p] = 0 /\ writes[p] = 0

\* C9 as amended.  Such a request makes no store call whatever the
\* configuration; it is answered 400 when both credentials are present and
\* 500 when one is missing.
C9_MissingInputNoStoreCall ==
  \A p \in Procs :
    (Done(p) /\ MissingInput(variant, event[p]))
    => /\ reads[p] = 0 /\ writes[p] = 0
       /\ ~response[p].success
       /\ response[p].statusCode = (IF ConfigPresent(env) THEN 400 ELSE 500)

\* C9's case: a request with missing input answered 400.
C9_Witness ==
  \E p \in Procs :
    /\ Done(p) /\ MissingInput(variant, event[p])
    /\ response[p].statusCode = 400 /\ reads[p] = 0

\* The requests C10 adds: a body that is not JSON, or a code that is present
\* but is not a string.
Malformed(ev) ==
  /\ ev.httpMethod = "POST"
  /\ \/ ev.body.json = "invalid"
     \/ ev.body.json = "object" /\ ev.body.code.t \notin {"undefined", "string"}

\* C10.  With the configuration present, a malformed request is answered
\* with a 4xx status and without any store call.
C10_MalformedIs4xx ==
  \A p \in Procs :
    (Done(p) /\ ConfigPresent(env) /\ Malformed(event[p]))
    => /\ response[p].statusCode \in 400..499
       /\ reads[p] = 0 /\ writes[p] = 0

\* C11.  A finished request whose method is neither POST nor OPTIONS has
\* 405 with success = false and made no store call, whatever its body and
\* whatever the configuration.
C11_OtherMethodIs405 ==
  \A p \in Procs :
    (Done(p) /\ event[p].httpMethod \notin {"POST", "OPTIONS"})
    => /\ response[p].statusCode = 405 /\ ~response[p].success
       /\ reads[p] = 0 /\ writes[p] = 0

\* C11's case: a GET answered 405 although the body would be a valid
\* activation and a credential is missing.
C11_Witness ==
  \E p \in Procs :
    /\ Done(p) /\ event[p].httpMethod = "GET" /\ event[p].body.json = "object"
    /\ ~ConfigPresent(env)
    /\ response[p].statusCode = 405

\* C12.  While a credential is missing no invocation is at a store call or
\* has made one, and every finished POST has 500 with success = false.
C12_NoStoreCallWithoutConfig ==
  (~env.SUPABASE_URL \/ ~env.SUPABASE_ANON_KEY) =>
    \A p \in Procs :
      /\ pc[p] \notin {"select", "update"}
      /\ reads[p] = 0 /\ writes[p] = 0
      /\ (Done(p) /\ event[p].httpMethod = "POST")
         => response[p].statusCode = 500 /\ ~response[p].success

\* C12's case: the URL is set, the access key is not, and an otherwise good
\* POST has been answered 500.
C12_Witness ==
  \E p \in Procs :
    /\ env.SUPABASE_URL /\ ~env.SUPABASE_ANON_KEY
    /\ Done(p) /\ WellFormed(variant, event[p])
    /\ response[p].statusCode = 500 /\ reads[p] = 0

\* C13.  An invocation has a response exactly when it has returned; the
\* response is structured (a JSON body, or the empty body of the 204), its
\* status is one of 200, 204, 400, 403, 404, 405, 500, and success = true
\* comes only with 200; a store call that reported a fault or threw has
\* ended the invocation with a 500 and success = false.
C13_OneStructuredResponse ==
  \A p \in Procs :
    /\ (response[p] # NoResponse) <=> Done(p)
    /\ Done(p) =>
         /\ response[p].statusCode \in {200, 204, 400, 403, 404, 405, 500}
         /\ (response[p].body = "json") <=> (response[p].statusCode # 204)
         /\ response[p].success => response[p].statusCode = 200
    /\ ({selectError[p], updateError[p]} \cap {"other", "threw"} # {}) =>
         /\ Done(p)
         /\ response[p].statusCode = 500 /\ ~response[p].success

\* C13's case: a store call threw and the invocation still returned a
\* structured 500.
C13_Witness ==
  \E p \in Procs :
    /\ Done(p) /\ (selectError[p] = "threw" \/ updateError[p] = "threw")
    /\ response[p].statusCode = 500 /\ response[p].body = "json"

\* C14.  An invocation that ended with success = false has left the store
\* as it found it: the store has applied no update of it, the one whose
\* update came back with an error included, in every interleaving.
C14_FailureLeavesStore ==
  \A p \in Procs : (Done(p) /\ ~response[p].success) => ~landed[p]

\* C15.  Whenever a record changes, the step is the store performing the
\* one update of one invocation, the record is the one its lookup returned,
\* that record carries the code the request asked for, and every other
\* record is unchanged by the step.
C15_OnlyLookedUpRecord ==
  [][\A id \in RecIds :
       table'[id] # table[id] =>
         \E p \in Procs :
           /\ StoreWrites(p) /\ landed'[p]
           /\ writes[p] = 1
           /\ codeData[p].id = id /\ id \in Targets(event[p])
           /\ \A other \in RecIds \ {id} : table'[other] = table[other]]_vars

\* C15's case: a request for one code has been activated while the record
\* of the other code is untouched.
C15_Witness ==
  \E p \in Procs : \E id \in RecIds :
    /\ Done(p) /\ Ok200(response[p]) /\ writes[p] = 1
    /\ Targets(event[p]) = {id} /\ table[id].is_used
    /\ \A other \in RecIds \ {id} : table[other] = NewRecord(other)

\* C16.  In every reachable state, for every record, used_at is non-null
\* exactly when is_used is true.
C16_UsedAtIffUsed ==
  \A id \in RecIds : (table[id].used_at # <<>>) <=> table[id].is_used

\* C16's case: a record has been activated and carries its timestamp.
C16_Witness ==
  \E id \in RecIds : table[id].is_used /\ table[id].used_at # <<>>

\* C17.  No step takes a record from is_used = true to false, and after
\* every step each returned 200 is for a code whose record has
\* is_used = true; together: once a 200 was returned for a code, its record
\* is used in every later state.
C17_UsedIsMonotonic ==
  [][/\ \A id \in RecIds : table[id].is_used => table'[id].is_used
     /\ \A p \in Procs : \A id \in RecIds :
          (pc'[p] = "done" /\ Ok200(response'[p]) /\ id \in Targets(event'[p]))
          => table'[id].is_used]_vars

\* C18.  Machine-bound handler, requests for one code not overlapping
\* (NonOverlapSpec): every 200 returned for a code went to the machine
\* whose machineId the record stores; a used record's machine_id never
\* changes, so no second machine ever gets a 200; and a request that comes
\* from another machine once the record is used gets no success, issues no
\* update, and is answered 403 when the lookup returns the record.
C18_OneMachinePerCode ==
  [][variant = "bound" =>
       /\ \A p \in Procs : \A id \in RecIds :
            (pc'[p] = "done" /\ Ok200(response'[p]) /\ id \in Targets(event'[p]))
            => table'[id].machine_id = event'[p].body.machineId
       /\ \A id \in RecIds :
            table[id].is_used => table'[id].machine_id = table[id].machine_id
       /\ \A p \in Procs : \A id \in RecIds :
            ( /\ SelectAnswered(p)
              /\ id \in Targets(event[p])
              /\ table[id].is_used
              /\ table[id].machine_id # event[p].body.machineId )
            => /\ ~response'[p].success
               /\ writes'[p] = 0
               /\ reply[p].error = "null" => response'[p].statusCode = 403]_vars

\* C19.  An invocation reads at most once and writes at most once; the
\* read is issued when the invocation starts and is answered with the
\* record as the store holds it then; the write is issued only by the step
\* that handles the read's answer, when that answer is a record with
\* is_used = false, which the invocation keeps; the update the store
\* applies goes to the record with the kept id whatever that record holds
\* by then, and to no other record.
C19_OneReadThenOneWrite ==
  [][\A p \in Procs :
       /\ reads'[p] <= 1 /\ writes'[p] <= 1 /\ writes'[p] <= reads'[p]
       /\ reads'[p] > reads[p] => pc[p] = "idle" /\ pc'[p] = "select"
       /\ ReadIsCurrent(p)
       /\ writes'[p] > writes[p] =>
            /\ SelectAnswered(p) /\ pc'[p] = "update"
            /\ reply[p].error = "null"
            /\ reply[p].data # NoRow /\ ~reply[p].data.is_used
            /\ codeData'[p] = reply[p].data
       /\ (StoreWrites(p) /\ landed'[p]) =>
            /\ table'[codeData[p].id].is_used = payload[p].is_used
            /\ table'[codeData[p].id].used_at = payload[p].used_at
            /\ \A id \in RecIds \ {codeData[p].id} : table'[id] = table[id]]_vars

\* C19's case: an invocation has read an unused record and sent its write,
\* and the record has been used by another invocation before the store
\* performs that write.
C19_Witness ==
  \E p \in Procs :
    /\ pc[p] = "update" /\ reply[p] = NoReply
    /\ reads[p] = 1 /\ writes[p] = 1
    /\ ~codeData[p].is_used
    /\ table[codeData[p].id].is_used

====
